---- MODULE Spec2Model ----
(***************************************************************************)
(* Model of package sp, conn.go: the SP pipe on top of a net.Conn.         *)
(*                                                                         *)
(* Two ends, "A" and "B", are joined by one reliable ordered duplex byte   *)
(* stream.  An end is either a conn (the code of conn.go) or a raw peer    *)
(* that writes bytes of its own choosing.  Byte strings are kept           *)
(* run-length encoded, a sequence of <<value, count>> runs in normal form  *)
(* (counts positive, neighbouring runs of different value), so that a      *)
(* body of 1024*1024 bytes is one value of the model.                      *)
(***************************************************************************)
EXTENDS Integers, Sequences, FiniteSets, TLC

\* ------------------------------------------------------------------ bounds
MaxOps == 3
SmallCap == 12
BigCap == 2097152
MaxRaw == 2

\* ------------------------------------------------------------ byte strings
\* Each operator on byte strings binds its arguments before it uses them,
\* so that an argument is evaluated once however often it is mentioned.
Min(a, b) == CHOOSE r \in {IF x <= y THEN x ELSE y : x \in {a}, y \in {b}} : TRUE

\* len(b).
RECURSIVE RunsLen(_)
RunsLen(s) == IF s = <<>> THEN 0 ELSE s[1][2] + RunsLen(Tail(s))
BLen(a) == CHOOSE r \in {RunsLen(s) : s \in {a}} : TRUE

\* append(a, b...), of two byte strings in normal form.
RunsCat(s, t) ==
  IF s = <<>> THEN t
  ELSE IF t = <<>> THEN s
  ELSE IF s[Len(s)][1] = t[1][1]
       THEN SubSeq(s, 1, Len(s) - 1)
            \o << <<t[1][1], s[Len(s)][2] + t[1][2]>> >>
            \o Tail(t)
       ELSE s \o t
BCat(a, b) == CHOOSE r \in {RunsCat(s, t) : s \in {a}, t \in {b}} : TRUE

\* b[:n].
RECURSIVE RunsTake(_, _)
RunsTake(s, n) ==
  IF n <= 0 \/ s = <<>> THEN <<>>
  ELSE IF s[1][2] <= n THEN <<s[1]>> \o RunsTake(Tail(s), n - s[1][2])
  ELSE << <<s[1][1], n>> >>
BTake(a, k) == CHOOSE r \in {RunsTake(s, n) : s \in {a}, n \in {k}} : TRUE

\* b[n:].
RECURSIVE RunsDrop(_, _)
RunsDrop(s, n) ==
  IF n <= 0 \/ s = <<>> THEN s
  ELSE IF s[1][2] <= n THEN RunsDrop(Tail(s), n - s[1][2])
  ELSE << <<s[1][1], s[1][2] - n>> >> \o Tail(s)
BDrop(a, k) == CHOOSE r \in {RunsDrop(s, n) : s \in {a}, n \in {k}} : TRUE

\* n bytes of value v.
Rep(v, n) == IF n = 0 THEN <<>> ELSE << <<v, n>> >>

\* The byte string of a sequence of bytes, and the sequence of a byte string.
RECURSIVE Pack(_)
Pack(q) == IF q = <<>> THEN <<>> ELSE BCat(Rep(q[1], 1), Pack(Tail(q)))

RECURSIVE RunsUnpack(_)
RunsUnpack(s) ==
  IF s = <<>> THEN <<>>
  ELSE [i \in 1..s[1][2] |-> s[1][1]] \o RunsUnpack(Tail(s))
Unpack(a) == CHOOSE r \in {RunsUnpack(s) : s \in {a}} : TRUE

IsPrefix(a, b) ==
  \E s \in {a} : \E t \in {b} : BLen(s) <= BLen(t) /\ BTake(t, BLen(s)) = s

\* ------------------------------------------------------------ wire formats
\* binary.Write(p.conn, binary.BigEndian, l) for l a uint64: eight bytes,
\* most significant first.  len() of the model's messages stays below 2^31.
PutUint64(l) ==
  Pack([i \in 1..8 |-> IF i <= 4 THEN 0
                       ELSE (l \div (256 ^ (8 - i))) % 256])

\* binary.Read into sz, an int64: the eight bytes, two's complement.
\* The value itself does not fit TLC's 32-bit integers; the two
\* comparisons of line 59 are computed on the bytes.
SzNeg(b) == b[1] >= 128
SzLow24(b) == b[6] * 65536 + b[7] * 256 + b[8]
SzGt(b, n) == ~SzNeg(b) /\ ((\E i \in 1..5 : b[i] # 0) \/ SzLow24(b) > n)

MaxMsgLen == 1024 * 1024

\* Mutant: the bound itself is rejected (>= for >).
TooLongAtBound(b) == SzGt(b, MaxMsgLen - 1) \/ SzNeg(b)

TooLong(b) == SzGt(b, MaxMsgLen) \/ SzNeg(b)

\* connHeader, as binary.Write / binary.Read lay it out.
ConnHeader(zero, s, p, version, proto, rsvd) ==
  [Zero |-> zero, S |-> s, P |-> p, Version |-> version,
   Proto |-> proto, Rsvd |-> rsvd]
EncodeHeader(hd) ==
  Pack(<<hd.Zero, hd.S, hd.P, hd.Version,
         hd.Proto \div 256, hd.Proto % 256, hd.Rsvd \div 256, hd.Rsvd % 256>>)
\* Mutant: the protocol number is decoded least significant byte first.
DecodeHeaderLE(b) ==
  [Zero |-> b[1], S |-> b[2], P |-> b[3], Version |-> b[4],
   Proto |-> b[6] * 256 + b[5], Rsvd |-> b[7] * 256 + b[8]]

DecodeHeader(b) ==
  [Zero |-> b[1], S |-> b[2], P |-> b[3], Version |-> b[4],
   Proto |-> b[5] * 256 + b[6], Rsvd |-> b[7] * 256 + b[8]]
HeaderLen == 8


\* ------------------------------------------------------------------- state
Ends == {"A", "B"}
Threads == {"a1", "a2", "b1"}
EndOf(t) == IF t \in {"a1", "a2"} THEN "A" ELSE "B"
Peer(e) == IF e = "A" THEN "B" ELSE "A"
None == "none"

VARIABLES
  lproto,    \* conn.lproto, per end
  rproto,    \* conn.rproto
  open,      \* conn.open
  rlock,     \* conn.rlock: the thread holding it, or None
  wlock,     \* conn.wlock
  closed,    \* conn.conn: Close has been called on this end's net.Conn
  wire,      \* conn.conn: wire[e] = bytes written by the peer, not yet read by e
  broken,    \* conn.conn: the link has failed; every read and write errors
  cap,       \* conn.conn: unread bytes the stream buffers in one direction
  kind,      \* per end: "pipe" (a conn of this package) or "raw"
  pc,        \* per thread: position in the operation it is running
  msg,       \* per thread: the *Message argument of Send
  buf,       \* per thread: bytes still to write / bytes read so far
  sz,        \* per thread: the eight bytes read into sz by Recv
  h,         \* per thread: the connHeader h of handshake
  ret,       \* per thread: what its last operation returned
  late,      \* per thread: its operation was called after a Close returned
  after,     \* per thread: the errors Send and Recv had returned on its pipe
             \*   when its operation was called
  ops,       \* operations called so far
  rawn,      \* writes made so far by a raw peer
  closeDone, \* per end: some call of Close has returned
  sendLog,   \* per end: the messages of the Sends that took wlock, in order
  out,       \* per end: every byte the end has written to the stream
  rcount     \* per end: frames whose Recv has returned a message

vars == <<lproto, rproto, open, rlock, wlock, closed, wire, broken, cap, kind,
          pc, msg, buf, sz, h, ret, late, after, ops, rawn, closeDone, sendLog,
          out, rcount>>

connVars == <<lproto, rproto, open>>
histVars == <<sendLog, out, rcount>>

Message(hdr, body) == [Header |-> hdr, Body |-> body]
NoMsg == Message(<<>>, <<>>)
NoRet ==
  [op |-> "none", err |-> "nil", body |-> <<>>, sz |-> <<>>, seq |-> 0,
   arg |-> 0]

\* The messages callers send.  Over a stream that buffers a few bytes: the
\* empty message, one with a header and a body, and one whose frame is
\* longer than the buffer.  Over a stream that buffers whole frames: the
\* empty message, one with a header and a body, one of exactly the bound
\* and one a byte over it.
SmallMsgs ==
  { Message(<<>>, <<>>),
    Message(Pack(<<1>>), Pack(<<2, 3>>)),
    Message(<<>>, Rep(8, 5)) }
BigMsgs ==
  { Message(<<>>, <<>>),
    Message(Pack(<<1>>), Pack(<<2, 3>>)),
    Message(Pack(<<1>>), Rep(6, 1024 * 1024 - 1)),
    Message(<<>>, Rep(7, 1024 * 1024 + 1)) }

\* Mutant: the length prefix counts the body only.
FrameLenBodyOnly(m) == BLen(m.Body)

\* l := uint64(len(msg.Header) + len(msg.Body)), line 75.
FrameLen(m) == BLen(m.Header) + BLen(m.Body)
SendInputs == IF cap >= 1024 * 1024 THEN BigMsgs ELSE SmallMsgs

\* -------------------------------------------------------------- net.Conn
Free(e) == cap - BLen(wire[Peer(e)])

\* Write on net.Conn fails once the stream is closed or the link is down.
WriteErr(e) ==
  IF closed[e] THEN "ErrClosed"
  ELSE IF broken THEN "EIO"
  ELSE IF closed[Peer(e)] THEN "EPIPE"
  ELSE "nil"

\* io.ReadFull over net.Conn.Read: got is the number of bytes this ReadFull
\* has read already; io.EOF after some bytes becomes ErrUnexpectedEOF.
ReadErr(e, got) ==
  IF closed[e] THEN "ErrClosed"
  ELSE IF broken THEN "EIO"
  ELSE IF wire[e] = <<>> /\ closed[Peer(e)]
       THEN (IF got > 0 THEN "ErrUnexpectedEOF" ELSE "EOF")
  ELSE "nil"

Return(t, r) ==
  /\ pc' = [pc EXCEPT ![t] = "idle"]
  /\ ret' = [ret EXCEPT ![t] = r]

\* The errors that calls of Send and Recv on the pipe of end e have returned.
ErrSeen(e) ==
  UNION { after[u] \cup (IF ret[u].op \in {"send", "recv"} /\ ret[u].err # "nil"
                         THEN {ret[u].err} ELSE {}) :
          u \in {v \in Threads : EndOf(v) = e} }

Call(t) ==
  /\ pc[t] = "idle"
  /\ kind[EndOf(t)] = "pipe"
  /\ ops < MaxOps
  /\ ops' = ops + 1
  /\ late' = [late EXCEPT ![t] = closeDone[EndOf(t)]]
  /\ after' = [after EXCEPT ![t] = ErrSeen(EndOf(t))]
  /\ ret' = [ret EXCEPT ![t] = NoRet]

\* ------------------------------------------------------------------- Send
\* p.wlock.Lock() (line 79) by thread t sending m: blocks while the guard
\* is held.  The length l (line 75) is what binary.Write is given.
\* Mutant: Send does not wait for the guard.
WLockFreeAlways(e) == TRUE

\* Mutant: one guard for both directions.
WLockFreeOneGuard(e) == wlock[e] = None /\ rlock[e] = None

WLockFree(e) == wlock[e] = None

WLock(t, m) ==
  LET e == EndOf(t) IN
  /\ wlock' = [wlock EXCEPT ![e] = t]
  /\ pc' = [pc EXCEPT ![t] = "send_len"]
  /\ buf' = [buf EXCEPT ![t] = PutUint64(FrameLen(m))]
  /\ sendLog' = [sendLog EXCEPT ![e] = Append(@, m)]

\* Mutant: Send refuses a message over the bound, as Recv does.
SendCallChecksBound(t, m) ==
  /\ pc[t] = "idle"
  /\ kind[EndOf(t)] = "pipe"
  /\ ops < MaxOps
  /\ ops' = ops + 1
  /\ late' = [late EXCEPT ![t] = closeDone[EndOf(t)]]
  /\ after' = [after EXCEPT ![t] = ErrSeen(EndOf(t))]
  /\ msg' = [msg EXCEPT ![t] = m]
  /\ IF FrameLen(m) > MaxMsgLen
     THEN /\ ret' = [ret EXCEPT ![t] = [NoRet EXCEPT !.op = "send",
                                                     !.err = "ErrTooLong"]]
          /\ UNCHANGED <<pc, wlock, buf, sendLog>>
     ELSE /\ ret' = [ret EXCEPT ![t] = NoRet]
          /\ IF WLockFree(EndOf(t))
             THEN WLock(t, m)
             ELSE /\ pc' = [pc EXCEPT ![t] = "send_lock"]
                  /\ UNCHANGED <<wlock, buf, sendLog>>
  /\ UNCHANGED <<connVars, h, rlock, closed, wire, broken, cap, kind, sz,
                 rawn, closeDone, out, rcount>>

\* A call of Send: up to the guard, and through it when it is free.
SendCall(t, m) ==
  /\ Call(t)
  /\ msg' = [msg EXCEPT ![t] = m]
  /\ IF WLockFree(EndOf(t))
     THEN WLock(t, m)
     ELSE /\ pc' = [pc EXCEPT ![t] = "send_lock"]
          /\ UNCHANGED <<wlock, buf, sendLog>>
  /\ UNCHANGED <<connVars, h, rlock, closed, wire, broken, cap, kind, sz,
                 rawn, closeDone, out, rcount>>

\* A Send that found the guard held gets it.
SendLock(t) ==
  /\ pc[t] = "send_lock"
  /\ WLockFree(EndOf(t))
  /\ WLock(t, msg[t])
  /\ UNCHANGED <<connVars, h, rlock, closed, wire, broken, cap, kind, msg, sz,
                 ret, late, after, ops, rawn, closeDone, out, rcount>>

\* Mutant: the guard is released before return nil only, not on an error.
SendReturnHoldsOnError(t, err) ==
  /\ wlock' = [wlock EXCEPT ![EndOf(t)] = IF err = "nil" THEN None ELSE @]
  /\ Return(t, [NoRet EXCEPT !.op = "send", !.err = err,
                             !.seq = Len(sendLog[EndOf(t)])])

\* defer p.wlock.Unlock() (line 80) and the return.
SendReturn(t, err) ==
  /\ wlock' = [wlock EXCEPT ![EndOf(t)] = None]
  /\ Return(t, [NoRet EXCEPT !.op = "send", !.err = err,
                             !.seq = Len(sendLog[EndOf(t)])])

\* Mutant: a failed write closes the stream, as the handshake does.
SendWriteCloses(t, at, nextpc, nextbuf) ==
  LET e == EndOf(t)
      err == WriteErr(e)
      k == Min(BLen(buf[t]), Free(e))
  IN
  /\ pc[t] = at
  /\ IF err # "nil"
     THEN /\ SendReturn(t, err)
          /\ closed' = [closed EXCEPT ![e] = TRUE]
          /\ UNCHANGED <<wire, out, buf>>
     ELSE /\ buf[t] = <<>> \/ k > 0
          /\ UNCHANGED closed
          /\ wire' = [wire EXCEPT ![Peer(e)] = BCat(@, BTake(buf[t], k))]
          /\ out' = [out EXCEPT ![e] = BCat(@, BTake(buf[t], k))]
          /\ IF k < BLen(buf[t])
             THEN /\ buf' = [buf EXCEPT ![t] = BDrop(@, k)]
                  /\ UNCHANGED <<pc, ret, wlock>>
             ELSE IF nextpc = "idle"
                  THEN SendReturn(t, "nil") /\ buf' = [buf EXCEPT ![t] = <<>>]
                  ELSE /\ pc' = [pc EXCEPT ![t] = nextpc]
                       /\ buf' = [buf EXCEPT ![t] = nextbuf]
                       /\ UNCHANGED <<ret, wlock>>
  /\ UNCHANGED <<connVars, h, rlock, broken, cap, kind, msg, sz, late, after,
                 ops, rawn, closeDone, sendLog, rcount>>

\* One p.conn.Write call of Send: an error return, or as many of the
\* remaining bytes as the stream takes; nextpc/nextbuf is the statement after.
SendWrite(t, at, nextpc, nextbuf) ==
  LET e == EndOf(t)
      err == WriteErr(e)
      k == Min(BLen(buf[t]), Free(e))
  IN
  /\ pc[t] = at
  /\ IF err # "nil"
     THEN /\ SendReturn(t, err)
          /\ UNCHANGED <<wire, out, buf>>
     ELSE /\ buf[t] = <<>> \/ k > 0
          /\ wire' = [wire EXCEPT ![Peer(e)] = BCat(@, BTake(buf[t], k))]
          /\ out' = [out EXCEPT ![e] = BCat(@, BTake(buf[t], k))]
          /\ IF k < BLen(buf[t])
             THEN /\ buf' = [buf EXCEPT ![t] = BDrop(@, k)]
                  /\ UNCHANGED <<pc, ret, wlock>>
             ELSE IF nextpc = "idle"
                  THEN SendReturn(t, "nil") /\ buf' = [buf EXCEPT ![t] = <<>>]
                  ELSE /\ pc' = [pc EXCEPT ![t] = nextpc]
                       /\ buf' = [buf EXCEPT ![t] = nextbuf]
                       /\ UNCHANGED <<ret, wlock>>
  /\ UNCHANGED <<connVars, h, rlock, closed, broken, cap, kind, msg, sz, late,
                 after, ops, rawn, closeDone, sendLog, rcount>>

\* Mutant: the body is written where the header belongs, and again after.
SendLenThenBody(t) == SendWrite(t, "send_len", "send_hdr", msg[t].Body)

SendLen(t) == SendWrite(t, "send_len", "send_hdr", msg[t].Header)
SendHdr(t) == SendWrite(t, "send_hdr", "send_body", msg[t].Body)
SendBody(t) == SendWrite(t, "send_body", "idle", <<>>)

\* ------------------------------------------------------------------- Recv
\* Mutant: Recv does not wait for the guard.
RLockFreeAlways(e) == TRUE

\* p.rlock.Lock() (line 46).
RLockFree(e) == rlock[e] = None

RLock(t) ==
  /\ rlock' = [rlock EXCEPT ![EndOf(t)] = t]
  /\ pc' = [pc EXCEPT ![t] = "recv_len"]
  /\ buf' = [buf EXCEPT ![t] = <<>>]
  /\ sz' = [sz EXCEPT ![t] = <<>>]

\* A call of Recv: up to the guard, and through it when it is free.
RecvCall(t) ==
  /\ Call(t)
  /\ IF RLockFree(EndOf(t))
     THEN RLock(t)
     ELSE /\ pc' = [pc EXCEPT ![t] = "recv_lock"]
          /\ UNCHANGED <<rlock, buf, sz>>
  /\ UNCHANGED <<connVars, h, wlock, closed, wire, broken, cap, kind, msg,
                 rawn, closeDone, histVars>>

\* A Recv that found the guard held gets it.
RecvLock(t) ==
  /\ pc[t] = "recv_lock"
  /\ RLockFree(EndOf(t))
  /\ RLock(t)
  /\ UNCHANGED <<connVars, h, wlock, closed, wire, broken, cap, kind, msg,
                 ret, late, after, ops, rawn, closeDone, histVars>>

RecvReturn(t, err, body) ==
  /\ rlock' = [rlock EXCEPT ![EndOf(t)] = None]
  /\ Return(t, [NoRet EXCEPT !.op = "recv", !.err = err, !.body = body,
                             !.sz = sz[t],
                             !.seq = IF err = "nil" THEN rcount[EndOf(t)] + 1
                                     ELSE 0])

\* binary.Read(p.conn, binary.BigEndian, &sz), line 49.
RecvLen(t) ==
  LET e == EndOf(t)
      err == ReadErr(e, BLen(buf[t]))
      k == Min(BLen(wire[e]), 8 - BLen(buf[t]))
      got == BCat(buf[t], BTake(wire[e], k))
  IN
  /\ pc[t] = "recv_len"
  /\ IF err # "nil"
     THEN /\ RecvReturn(t, err, <<>>)
          /\ UNCHANGED <<wire, buf, sz>>
     ELSE /\ k > 0
          /\ wire' = [wire EXCEPT ![e] = BDrop(@, k)]
          /\ buf' = [buf EXCEPT ![t] = got]
          /\ IF BLen(got) = 8
             THEN /\ sz' = [sz EXCEPT ![t] = Unpack(got)]
                  /\ pc' = [pc EXCEPT ![t] = "recv_chk"]
             ELSE UNCHANGED <<sz, pc>>
          /\ UNCHANGED <<rlock, ret>>
  /\ UNCHANGED <<connVars, h, wlock, closed, broken, cap, kind, msg, late,
                 after, ops, rawn, closeDone, histVars>>

\* Mutant: an over-long frame is refused and the stream left open.
RecvChkNoClose(t) ==
  LET e == EndOf(t) IN
  /\ pc[t] = "recv_chk"
  /\ IF TooLong(sz[t])
     THEN /\ RecvReturn(t, "ErrTooLong", <<>>)
          /\ UNCHANGED <<closed, buf, rcount>>
     ELSE IF SzLow24(sz[t]) = 0
     THEN /\ rcount' = [rcount EXCEPT ![e] = @ + 1]
          /\ RecvReturn(t, "nil", <<>>)
          /\ buf' = [buf EXCEPT ![t] = <<>>]
          /\ UNCHANGED closed
     ELSE /\ pc' = [pc EXCEPT ![t] = "recv_body"]
          /\ buf' = [buf EXCEPT ![t] = <<>>]
          /\ UNCHANGED <<closed, rlock, ret, rcount>>
  /\ UNCHANGED <<connVars, h, wlock, wire, broken, cap, kind, msg, sz, late,
                 after, ops, rawn, closeDone, sendLog, out>>

\* Mutant: an over-long frame is refused by p.Close(), flag and stream.
RecvChkClosesPipe(t) ==
  LET e == EndOf(t) IN
  /\ pc[t] = "recv_chk"
  /\ IF TooLong(sz[t])
     THEN /\ closed' = [closed EXCEPT ![e] = TRUE]
          /\ open' = [open EXCEPT ![e] = FALSE]
          /\ RecvReturn(t, "ErrTooLong", <<>>)
          /\ UNCHANGED <<buf, rcount>>
     ELSE IF SzLow24(sz[t]) = 0
     THEN /\ rcount' = [rcount EXCEPT ![e] = @ + 1]
          /\ RecvReturn(t, "nil", <<>>)
          /\ buf' = [buf EXCEPT ![t] = <<>>]
          /\ UNCHANGED <<closed, open>>
     ELSE /\ pc' = [pc EXCEPT ![t] = "recv_body"]
          /\ buf' = [buf EXCEPT ![t] = <<>>]
          /\ UNCHANGED <<closed, open, rlock, ret, rcount>>
  /\ UNCHANGED <<lproto, rproto, h, wlock, wire, broken, cap, kind, msg, sz,
                 late, after, ops, rawn, closeDone, sendLog, out>>

\* Lines 59-63: the bound, and the allocation of the body.  io.ReadFull
\* into an empty body returns at once without a Read.
RecvChk(t) ==
  LET e == EndOf(t) IN
  /\ pc[t] = "recv_chk"
  /\ IF TooLong(sz[t])
     THEN /\ closed' = [closed EXCEPT ![e] = TRUE]
          /\ RecvReturn(t, "ErrTooLong", <<>>)
          /\ UNCHANGED <<buf, rcount>>
     ELSE IF SzLow24(sz[t]) = 0
     THEN /\ rcount' = [rcount EXCEPT ![e] = @ + 1]
          /\ RecvReturn(t, "nil", <<>>)
          /\ buf' = [buf EXCEPT ![t] = <<>>]
          /\ UNCHANGED closed
     ELSE /\ pc' = [pc EXCEPT ![t] = "recv_body"]
          /\ buf' = [buf EXCEPT ![t] = <<>>]
          /\ UNCHANGED <<closed, rlock, ret, rcount>>
  /\ UNCHANGED <<connVars, h, wlock, wire, broken, cap, kind, msg, sz, late,
                 after, ops, rawn, closeDone, sendLog, out>>

\* Mutant: the body is read with one Read, which may return fewer bytes.
RecvBodyOneRead(t) ==
  LET e == EndOf(t)
      err == ReadErr(e, 0)
      k == Min(BLen(wire[e]), SzLow24(sz[t]))
  IN
  /\ pc[t] = "recv_body"
  /\ IF err # "nil"
     THEN /\ RecvReturn(t, err, <<>>)
          /\ UNCHANGED <<wire, buf, rcount>>
     ELSE /\ k > 0
          /\ wire' = [wire EXCEPT ![e] = BDrop(@, k)]
          /\ rcount' = [rcount EXCEPT ![e] = @ + 1]
          /\ RecvReturn(t, "nil", BTake(wire[e], k))
          /\ buf' = [buf EXCEPT ![t] = <<>>]
  /\ UNCHANGED <<connVars, h, wlock, closed, broken, cap, kind, msg, sz, late,
                 after, ops, rawn, closeDone, sendLog, out>>

\* io.ReadFull(p.conn, msg.Body), line 64.
RecvBody(t) ==
  LET e == EndOf(t)
      err == ReadErr(e, BLen(buf[t]))
      k == Min(BLen(wire[e]), SzLow24(sz[t]) - BLen(buf[t]))
      got == BCat(buf[t], BTake(wire[e], k))
  IN
  /\ pc[t] = "recv_body"
  /\ IF err # "nil"
     THEN /\ RecvReturn(t, err, <<>>)
          /\ UNCHANGED <<wire, buf, rcount>>
     ELSE /\ k > 0
          /\ wire' = [wire EXCEPT ![e] = BDrop(@, k)]
          /\ IF BLen(got) = SzLow24(sz[t])
             THEN /\ rcount' = [rcount EXCEPT ![e] = @ + 1]
                  /\ RecvReturn(t, "nil", got)
                  /\ buf' = [buf EXCEPT ![t] = <<>>]
             ELSE /\ buf' = [buf EXCEPT ![t] = got]
                  /\ UNCHANGED <<rlock, pc, ret, rcount>>
  /\ UNCHANGED <<connVars, h, wlock, closed, broken, cap, kind, msg, sz, late,
                 after, ops, rawn, closeDone, sendLog, out>>

\* ------------------------------------------------------------------ Close
\* Mutant: Close closes the stream and leaves the flag as it is.
CloseCallKeepsFlag(t) ==
  /\ Call(t)
  /\ pc' = [pc EXCEPT ![t] = "close_conn"]
  /\ UNCHANGED <<connVars, h, rlock, wlock, closed, wire, broken, cap, kind,
                 msg, buf, sz, rawn, closeDone, histVars>>

\* Mutant: Close clears the remote protocol number with the flag.
CloseCallClearsProto(t) ==
  /\ Call(t)
  /\ pc' = [pc EXCEPT ![t] = "close_conn"]
  /\ open' = [open EXCEPT ![EndOf(t)] = FALSE]
  /\ rproto' = [rproto EXCEPT ![EndOf(t)] = 0]
  /\ UNCHANGED <<lproto, h, rlock, wlock, closed, wire, broken, cap, kind,
                 msg, buf, sz, rawn, closeDone, histVars>>

\* p.open = false (line 108) ...
CloseCall(t) ==
  /\ Call(t)
  /\ pc' = [pc EXCEPT ![t] = "close_conn"]
  /\ open' = [open EXCEPT ![EndOf(t)] = FALSE]
  /\ UNCHANGED <<lproto, rproto, h, rlock, wlock, closed, wire, broken, cap,
                 kind, msg, buf, sz, rawn, closeDone, histVars>>

\* Mutant: Close marks the pipe closed and leaves the stream open.
CloseConnFlagOnly(t) ==
  /\ pc[t] = "close_conn"
  /\ closeDone' = [closeDone EXCEPT ![EndOf(t)] = TRUE]
  /\ Return(t, [NoRet EXCEPT !.op = "close"])
  /\ UNCHANGED <<connVars, h, rlock, wlock, closed, wire, broken, cap, kind,
                 msg, buf, sz, late, after, ops, rawn, histVars>>

\* ... return p.conn.Close() (line 109).
CloseConn(t) ==
  LET e == EndOf(t) IN
  /\ pc[t] = "close_conn"
  /\ closed' = [closed EXCEPT ![e] = TRUE]
  /\ closeDone' = [closeDone EXCEPT ![e] = TRUE]
  /\ Return(t, [NoRet EXCEPT !.op = "close",
                             !.err = IF closed[e] THEN "ErrClosed" ELSE "nil"])
  /\ UNCHANGED <<connVars, h, rlock, wlock, wire, broken, cap, kind, msg, buf,
                 sz, late, after, ops, rawn, histVars>>

IsOpen(e) == open[e]
LocalProtocol(e) == lproto[e]
RemoteProtocol(e) == rproto[e]

\* ------------------------------------------------- NewConnPipe, handshake
Main(e) == IF e = "A" THEN "a1" ELSE "b1"
Protos == {0, 1, 258, 65535}

\* Mutant: read the peer's header before writing the local one.
HsNextPcReadFirst(p) ==
  CASE p = "new" -> "hs_read"
    [] p = "hs_read" -> "hs_write"
    [] p = "hs_write" -> "hs_check"

\* The order of the statements of handshake (lines 151-172): write the
\* local header, read the peer's, validate.
HsNextPc(p) ==
  CASE p = "new" -> "hs_write"
    [] p = "hs_write" -> "hs_read"
    [] p = "hs_read" -> "hs_check"

\* return nil, err / return p, nil (lines 128-132): a failed construction
\* returns no pipe, and no operation is ever called on it.
HsReturn(t, err) ==
  /\ pc' = [pc EXCEPT ![t] = IF err = "nil" THEN "idle" ELSE "failed"]
  /\ ret' = [ret EXCEPT ![t] = [@ EXCEPT !.op = "new", !.err = err]]

\* p := &conn{conn: c, lproto: lproto}; h := connHeader{S: 'S', P: 'P',
\* Proto: p.lproto} (lines 127, 151).
NewConnPipe(t, lp) ==
  LET e == EndOf(t) IN
  /\ pc[t] = "new"
  /\ lproto' = [lproto EXCEPT ![e] = lp]
  /\ rproto' = [rproto EXCEPT ![e] = 0]
  /\ open' = [open EXCEPT ![e] = FALSE]
  /\ h' = [h EXCEPT ![t] = ConnHeader(0, 83, 80, 0, lp, 0)]
  /\ pc' = [pc EXCEPT ![t] = HsNextPc("new")]
  /\ buf' = [buf EXCEPT ![t] = <<>>]
  /\ ret' = [ret EXCEPT ![t] = [NoRet EXCEPT !.arg = lp]]
  /\ UNCHANGED <<rlock, wlock, closed, wire, broken, cap, kind, msg, sz, late,
                 after, ops, rawn, closeDone, histVars>>

\* binary.Write(p.conn, binary.BigEndian, &h), lines 152-154.
HsWrite(t) ==
  LET e == EndOf(t)
      err == WriteErr(e)
      data == IF buf[t] = <<>> THEN EncodeHeader(h[t]) ELSE buf[t]
      k == Min(BLen(data), Free(e))
  IN
  /\ pc[t] = "hs_write"
  /\ IF err # "nil"
     THEN /\ HsReturn(t, err)
          /\ UNCHANGED <<wire, out, buf>>
     ELSE /\ k > 0
          /\ wire' = [wire EXCEPT ![Peer(e)] = BCat(@, BTake(data, k))]
          /\ out' = [out EXCEPT ![e] = BCat(@, BTake(data, k))]
          /\ buf' = [buf EXCEPT ![t] = BDrop(data, k)]
          /\ IF k < BLen(data)
             THEN UNCHANGED pc
             ELSE pc' = [pc EXCEPT ![t] = HsNextPc("hs_write")]
          /\ UNCHANGED ret
  /\ UNCHANGED <<connVars, h, rlock, wlock, closed, broken, cap, kind, msg,
                 sz, late, after, ops, rawn, closeDone, sendLog, rcount>>

\* binary.Read(p.conn, binary.BigEndian, &h), lines 155-158.
HsRead(t) ==
  LET e == EndOf(t)
      err == ReadErr(e, BLen(buf[t]))
      k == Min(BLen(wire[e]), HeaderLen - BLen(buf[t]))
      got == BCat(buf[t], BTake(wire[e], k))
  IN
  /\ pc[t] = "hs_read"
  /\ IF err # "nil"
     THEN /\ closed' = [closed EXCEPT ![e] = TRUE]
          /\ HsReturn(t, err)
          /\ UNCHANGED <<wire, buf, h>>
     ELSE /\ k > 0
          /\ wire' = [wire EXCEPT ![e] = BDrop(@, k)]
          /\ IF BLen(got) = HeaderLen
             THEN /\ h' = [h EXCEPT ![t] = DecodeHeader(Unpack(got))]
                  /\ buf' = [buf EXCEPT ![t] = <<>>]
                  /\ pc' = [pc EXCEPT ![t] = HsNextPc("hs_read")]
             ELSE /\ buf' = [buf EXCEPT ![t] = got]
                  /\ UNCHANGED <<h, pc>>
          /\ UNCHANGED <<closed, ret>>
  /\ UNCHANGED <<connVars, rlock, wlock, broken, cap, kind, msg, sz, late,
                 after, ops, rawn, closeDone, histVars>>

\* Mutant: the reserved trailer is not looked at.
BadHeaderNoRsvd(hd) == hd.Zero # 0 \/ hd.S # 83 \/ hd.P # 80

\* Mutant: the version is validated before the reserved bytes and the magic.
HsVerdictVersionFirst(hd) ==
  IF hd.Version # 0 THEN "ErrBadVersion"
  ELSE IF hd.Zero # 0 \/ hd.S # 83 \/ hd.P # 80 \/ hd.Rsvd # 0
       THEN "ErrBadHeader"
  ELSE "nil"

\* The two validations, in the order of lines 159-167.
BadHeader(hd) == hd.Zero # 0 \/ hd.S # 83 \/ hd.P # 80 \/ hd.Rsvd # 0
HsVerdict(hd) ==
  IF BadHeader(hd) THEN "ErrBadHeader"
  ELSE IF hd.Version # 0 THEN "ErrBadVersion"
  ELSE "nil"

\* Lines 159-172.
HsCheck(t) ==
  LET e == EndOf(t)
      err == HsVerdict(h[t])
  IN
  /\ pc[t] = "hs_check"
  /\ IF err # "nil"
     THEN /\ closed' = [closed EXCEPT ![e] = TRUE]
          /\ UNCHANGED <<rproto, open>>
     ELSE /\ rproto' = [rproto EXCEPT ![e] = h[t].Proto]
          /\ open' = [open EXCEPT ![e] = TRUE]
          /\ UNCHANGED closed
  /\ HsReturn(t, err)
  /\ UNCHANGED <<lproto, h, rlock, wlock, wire, broken, cap, kind, msg, buf,
                 sz, late, after, ops, rawn, closeDone, histVars>>

\* ------------------------------------------------- the stream and the peer
Break ==
  /\ ~broken
  /\ broken' = TRUE
  /\ UNCHANGED <<connVars, h, rlock, wlock, closed, wire, cap, kind, pc, msg,
                 buf, sz, ret, late, after, ops, rawn, closeDone, histVars>>

\* What a raw peer writes in steady state: length prefixes at and around
\* the bound, negative as an int64, and body bytes.
RawFrames ==
  { PutUint64(0), PutUint64(2), PutUint64(MaxMsgLen), PutUint64(MaxMsgLen + 1),
    Pack(<<128, 0, 0, 0, 0, 0, 0, 0>>), Rep(255, 8),
    Pack(<<0, 0, 0, 1, 0, 0, 0, 0>>),
    Rep(9, 2), Rep(9, MaxMsgLen) }

\* What a raw peer writes in place of a handshake header.
RawHeaders ==
  { EncodeHeader(ConnHeader(0, 83, 80, 0, 258, 0)),
    EncodeHeader(ConnHeader(1, 83, 80, 0, 258, 0)),
    EncodeHeader(ConnHeader(0, 88, 80, 0, 258, 0)),
    EncodeHeader(ConnHeader(0, 83, 81, 0, 258, 0)),
    EncodeHeader(ConnHeader(0, 83, 80, 0, 258, 1)),
    EncodeHeader(ConnHeader(0, 83, 80, 0, 258, 256)),
    EncodeHeader(ConnHeader(0, 83, 80, 1, 258, 0)),
    EncodeHeader(ConnHeader(0, 88, 80, 1, 258, 0)),
    Pack(<<0, 83, 80>>) }

RawWrite(e, b) ==
  /\ kind[e] = "raw"
  /\ ~closed[e] /\ ~broken
  /\ rawn < MaxRaw
  /\ BLen(b) <= Free(e)
  /\ rawn' = rawn + 1
  /\ wire' = [wire EXCEPT ![Peer(e)] = BCat(@, b)]
  /\ UNCHANGED <<connVars, h, rlock, wlock, closed, broken, cap, kind, pc,
                 msg, buf, sz, ret, late, after, ops, closeDone, histVars>>

RawClose(e) ==
  /\ kind[e] = "raw"
  /\ ~closed[e]
  /\ closed' = [closed EXCEPT ![e] = TRUE]
  /\ UNCHANGED <<connVars, h, rlock, wlock, wire, broken, cap, kind, pc, msg,
                 buf, sz, ret, late, after, ops, rawn, closeDone, histVars>>

\* ------------------------------------------------------ the specification
InitCommon ==
  /\ rlock = [e \in Ends |-> None]
  /\ wlock = [e \in Ends |-> None]
  /\ closed = [e \in Ends |-> FALSE]
  /\ wire = [e \in Ends |-> <<>>]
  /\ broken = FALSE
  /\ msg = [t \in Threads |-> NoMsg]
  /\ buf = [t \in Threads |-> <<>>]
  /\ sz = [t \in Threads |-> <<>>]
  /\ h = [t \in Threads |-> ConnHeader(0, 0, 0, 0, 0, 0)]
  /\ ret = [t \in Threads |-> NoRet]
  /\ late = [t \in Threads |-> FALSE]
  /\ after = [t \in Threads |-> {}]
  /\ ops = 0
  /\ rawn = 0
  /\ closeDone = [e \in Ends |-> FALSE]
  /\ sendLog = [e \in Ends |-> <<>>]
  /\ out = [e \in Ends |-> <<>>]
  /\ rcount = [e \in Ends |-> 0]

\* Two pipes, after NewConnPipe has returned one on each end of the stream.
InitPipes ==
  /\ InitCommon
  /\ kind = [e \in Ends |-> "pipe"]
  /\ lproto = [e \in Ends |-> IF e = "A" THEN 1 ELSE 2]
  /\ rproto = [e \in Ends |-> lproto[Peer(e)]]
  /\ pc = [t \in Threads |-> "idle"]
  /\ open = [e \in Ends |-> TRUE]

\* Over a stream that buffers a few bytes in each direction.
Init == InitPipes /\ cap = SmallCap

Next ==
  \/ \E t \in Threads : \E m \in SendInputs : SendCall(t, m)
  \/ \E t \in Threads : SendLock(t)
  \/ \E t \in Threads : SendLen(t)
  \/ \E t \in Threads : SendHdr(t)
  \/ \E t \in Threads : SendBody(t)
  \/ \E t \in Threads : RecvCall(t)
  \/ \E t \in Threads : RecvLock(t)
  \/ \E t \in Threads : RecvLen(t)
  \/ \E t \in Threads : RecvChk(t)
  \/ \E t \in Threads : RecvBody(t)
  \/ \E t \in Threads : CloseCall(t)
  \/ \E t \in Threads : CloseConn(t)

Spec == Init /\ [][Next]_vars

\* Over a stream that buffers whole frames.
InitBig == InitPipes /\ cap = BigCap

SpecBig == InitBig /\ [][Next]_vars

\* A step of an operation that has been called: every caller is a thread of
\* its own, and a thread that can go on does.
ThreadStep(t) ==
  \/ SendLock(t) \/ SendLen(t) \/ SendHdr(t) \/ SendBody(t)
  \/ RecvLock(t) \/ RecvLen(t) \/ RecvChk(t) \/ RecvBody(t)
  \/ CloseConn(t)

SpecLive == Spec /\ \A t \in Threads : WF_vars(ThreadStep(t))

\* Callers that each go on when they can, sending a message with a header
\* and a body or one a byte over the bound, over a stream that buffers a
\* few bytes.
GuardMsgs ==
  { Message(Pack(<<1>>), Pack(<<2, 3>>)),
    Message(<<>>, Rep(7, 1024 * 1024 + 1)) }

NextGuard ==
  \/ \E t \in Threads : \E m \in GuardMsgs : SendCall(t, m)
  \/ \E t \in Threads : SendLock(t)
  \/ \E t \in Threads : SendLen(t)
  \/ \E t \in Threads : SendHdr(t)
  \/ \E t \in Threads : SendBody(t)
  \/ \E t \in Threads : RecvCall(t)
  \/ \E t \in Threads : RecvLock(t)
  \/ \E t \in Threads : RecvLen(t)
  \/ \E t \in Threads : RecvChk(t)
  \/ \E t \in Threads : RecvBody(t)
  \/ \E t \in Threads : CloseCall(t)
  \/ \E t \in Threads : CloseConn(t)

SpecGuard ==
  Init /\ [][NextGuard]_vars /\ \A t \in Threads : WF_vars(ThreadStep(t))

\* One pipe, on end A, whose peer writes bytes of its own choosing.
InitRaw ==
  /\ InitCommon
  /\ kind = [e \in Ends |-> IF e = "A" THEN "pipe" ELSE "raw"]
  /\ cap \in {SmallCap, BigCap}
  /\ lproto = [e \in Ends |-> IF e = "A" THEN 1 ELSE 0]
  /\ rproto = [e \in Ends |-> IF e = "A" THEN 2 ELSE 0]
  /\ pc = [t \in Threads |-> "idle"]
  /\ open = [e \in Ends |-> e = "A"]

NextRaw ==
  \/ \E t \in Threads : RecvCall(t)
  \/ \E t \in Threads : RecvLock(t)
  \/ \E t \in Threads : RecvLen(t)
  \/ \E t \in Threads : RecvChk(t)
  \/ \E t \in Threads : RecvBody(t)
  \/ \E t \in Threads : CloseCall(t)
  \/ \E t \in Threads : CloseConn(t)
  \/ \E e \in Ends : \E b \in RawFrames : RawWrite(e, b)
  \/ \E e \in Ends : RawClose(e)

SpecRaw == InitRaw /\ [][NextRaw]_vars

\* The two ends of a fresh stream, before NewConnPipe is called on end A
\* and, when end B is a conn too, on end B.
InitHS ==
  /\ InitCommon
  /\ kind \in {[e \in Ends |-> "pipe"],
               [e \in Ends |-> IF e = "A" THEN "pipe" ELSE "raw"]}
  /\ cap \in {HeaderLen, SmallCap}
  /\ lproto = [e \in Ends |-> 0]
  /\ rproto = [e \in Ends |-> 0]
  /\ open = [e \in Ends |-> FALSE]
  /\ pc = [t \in Threads |->
             IF t = Main(EndOf(t)) /\ kind[EndOf(t)] = "pipe" THEN "new"
             ELSE "idle"]

HsStep(t) == HsWrite(t) \/ HsRead(t) \/ HsCheck(t)

NextHS ==
  \/ \E t \in Threads : \E lp \in Protos : NewConnPipe(t, lp)
  \/ \E t \in Threads : HsWrite(t)
  \/ \E t \in Threads : HsRead(t)
  \/ \E t \in Threads : HsCheck(t)
  \/ Break
  \/ \E e \in Ends : \E b \in RawHeaders : RawWrite(e, b)
  \/ \E e \in Ends : RawClose(e)

SpecHS == InitHS /\ [][NextHS]_vars

\* Every started handshake step is eventually taken: each constructor runs
\* on a thread of its own.
SpecHSLive == SpecHS /\ \A t \in Threads : WF_vars(HsStep(t))

\* return p, nil (line 132): the caller of NewConnPipe has the pipe, and
\* hands it to another of its threads.  Before that no method of the pipe
\* can be called: a thread without the pipe is at "nopipe".
Share(t) ==
  /\ pc[t] = "nopipe"
  /\ pc[Main(EndOf(t))]
       \notin {"new", "hs_write", "hs_read", "hs_check", "failed"}
  /\ pc' = [pc EXCEPT ![t] = "idle"]
  /\ UNCHANGED <<connVars, h, rlock, wlock, closed, wire, broken, cap, kind,
                 msg, buf, sz, ret, late, after, ops, rawn, closeDone,
                 histVars>>

\* The life of a pipe, from NewConnPipe to Close, over a stream that buffers
\* a few bytes: the messages sent are one with a header and a body and one
\* a byte over the bound; a raw peer writes a handshake header and then
\* length prefixes, or a length prefix where the header belongs.
LifeMsgs ==
  { Message(Pack(<<1>>), Pack(<<2, 3>>)),
    Message(<<>>, Rep(7, 1024 * 1024 + 1)) }
LifeProtos == {1, 258}
LifeRaw ==
  { EncodeHeader(ConnHeader(0, 83, 80, 0, 258, 0)),
    PutUint64(0),
    PutUint64(MaxMsgLen + 1) }

InitLife ==
  /\ InitCommon
  /\ kind \in {[e \in Ends |-> "pipe"],
               [e \in Ends |-> IF e = "A" THEN "pipe" ELSE "raw"]}
  /\ cap = SmallCap
  /\ lproto = [e \in Ends |-> 0]
  /\ rproto = [e \in Ends |-> 0]
  /\ open = [e \in Ends |-> FALSE]
  /\ pc = [t \in Threads |->
             IF kind[EndOf(t)] = "raw" THEN "idle"
             ELSE IF t = Main(EndOf(t)) THEN "new"
             ELSE "nopipe"]

NextLife ==
  \/ \E t \in Threads : \E lp \in LifeProtos : NewConnPipe(t, lp)
  \/ \E t \in Threads : HsWrite(t)
  \/ \E t \in Threads : HsRead(t)
  \/ \E t \in Threads : HsCheck(t)
  \/ \E t \in Threads : Share(t)
  \/ \E t \in Threads : \E m \in LifeMsgs : SendCall(t, m)
  \/ \E t \in Threads : SendLock(t)
  \/ \E t \in Threads : SendLen(t)
  \/ \E t \in Threads : SendHdr(t)
  \/ \E t \in Threads : SendBody(t)
  \/ \E t \in Threads : RecvCall(t)
  \/ \E t \in Threads : RecvLock(t)
  \/ \E t \in Threads : RecvLen(t)
  \/ \E t \in Threads : RecvChk(t)
  \/ \E t \in Threads : RecvBody(t)
  \/ \E t \in Threads : CloseCall(t)
  \/ \E t \in Threads : CloseConn(t)
  \/ \E e \in Ends : \E b \in LifeRaw : RawWrite(e, b)
  \/ \E e \in Ends : RawClose(e)

SpecLife == InitLife /\ [][NextLife]_vars

\* The frame of a message, as the three writes of Send lay it out.
Frame(m) == BCat(PutUint64(FrameLen(m)), BCat(m.Header, m.Body))

\* Two pipes after Send(m1) has returned on end B, its frame still unread
\* in the stream's buffer.
InitSent ==
  /\ kind = [e \in Ends |-> "pipe"]
  /\ cap = SmallCap
  /\ lproto = [e \in Ends |-> IF e = "A" THEN 1 ELSE 2]
  /\ rproto = [e \in Ends |-> lproto[Peer(e)]]
  /\ open = [e \in Ends |-> TRUE]
  /\ pc = [t \in Threads |-> "idle"]
  /\ rlock = [e \in Ends |-> None]
  /\ wlock = [e \in Ends |-> None]
  /\ closed = [e \in Ends |-> FALSE]
  /\ broken = FALSE
  /\ msg = [t \in Threads |-> NoMsg]
  /\ buf = [t \in Threads |-> <<>>]
  /\ sz = [t \in Threads |-> <<>>]
  /\ h = [t \in Threads |-> ConnHeader(0, 0, 0, 0, 0, 0)]
  /\ late = [t \in Threads |-> FALSE]
  /\ after = [t \in Threads |-> {}]
  /\ ops = 0
  /\ rawn = 0
  /\ closeDone = [e \in Ends |-> FALSE]
  /\ rcount = [e \in Ends |-> 0]
  /\ \E m1 \in {m \in SmallMsgs : BLen(Frame(m)) <= cap} :
       /\ sendLog = [e \in Ends |-> IF e = "B" THEN <<m1>> ELSE <<>>]
       /\ out = [e \in Ends |-> IF e = "B" THEN Frame(m1) ELSE <<>>]
       /\ wire = [e \in Ends |-> IF e = "A" THEN Frame(m1) ELSE <<>>]
       /\ ret = [t \in Threads |->
                   IF t = "b1"
                   THEN [NoRet EXCEPT !.op = "send", !.seq = 1]
                   ELSE NoRet]

SpecSent == InitSent /\ [][Next]_vars

\* ------------------------------------------------------------- the claims
\* The declared length of a frame, from the eight bytes of its prefix, for
\* prefixes below 2^24; Declared24 says the prefix is one.
Declared24(b) == b[1] = 0 /\ b[2] = 0 /\ b[3] = 0 /\ b[4] = 0 /\ b[5] = 0
DeclaredLen(b) == b[6] * 65536 + b[7] * 256 + b[8]

\* C1: round-trip framing.  A Recv that returns a message returns, as its
\* Body, Header ++ Body of the message of the peer's Send that wrote that
\* frame, and the eight-byte prefix it read is len(Header) + len(Body);
\* Recv fails with "message too long" only on a frame of a message longer
\* than 1,048,576 bytes, and with an I/O error only once a stream end is closed.
RoundTrip ==
  \A t \in Threads :
    LET e == EndOf(t)
        r == ret[t]
        log == sendLog[Peer(e)]
    IN
    r.op = "recv" =>
      /\ r.err = "nil" =>
           /\ r.seq \in 1..Len(log)
           /\ r.body = BCat(log[r.seq].Header, log[r.seq].Body)
           /\ Declared24(r.sz)
           /\ DeclaredLen(r.sz)
                = BLen(log[r.seq].Header) + BLen(log[r.seq].Body)
      /\ r.err = "ErrTooLong" =>
           /\ rcount[e] + 1 <= Len(log)
           /\ BLen(log[rcount[e] + 1].Header) + BLen(log[rcount[e] + 1].Body)
                > 1048576
      /\ r.err \notin {"nil", "ErrTooLong"} => closed[e] \/ closed[Peer(e)]

\* A message of exactly 1,048,576 bytes, its header not empty, has made
\* the round trip.
RoundTripWitness ==
  \E t \in Threads :
    /\ ret[t].op = "recv" /\ ret[t].err = "nil"
    /\ BLen(ret[t].body) = 1048576
    /\ sendLog[Peer(EndOf(t))][ret[t].seq].Header # <<>>

RECURSIVE FramesOf(_)
FramesOf(log) ==
  IF log = <<>> THEN <<>>
  ELSE BCat(BCat(PutUint64(BLen(log[1].Header) + BLen(log[1].Body)),
                 BCat(log[1].Header, log[1].Body)),
            FramesOf(Tail(log)))

\* C2: concurrent sends are serialized.  The bytes an end has written are
\* at every moment a prefix of the concatenation of the complete frames of
\* its Sends, in the order the Sends took the write guard; with no Send in
\* progress and no stream end closed they are exactly that concatenation.
SendSerialized ==
  \A e \in Ends :
    kind[e] = "pipe" =>
      /\ IsPrefix(out[e], FramesOf(sendLog[e]))
      /\ (wlock[e] = None /\ ~closed[e] /\ ~closed[Peer(e)])
           => out[e] = FramesOf(sendLog[e])

\* Two callers of Send on one pipe have both returned without error.
SendSerializedWitness ==
  /\ ret["a1"].op = "send" /\ ret["a1"].err = "nil"
  /\ ret["a2"].op = "send" /\ ret["a2"].err = "nil"
  /\ Len(sendLog["A"]) = 2
  /\ sendLog["A"][1] # sendLog["A"][2]

\* C3: the length bound of Recv.  On a declared length of at most
\* 1,048,576 Recv goes on to read the body, leaves the stream open and
\* returns a body of the declared length; on a longer or a negative one it
\* closes the stream and returns "message too long" and no message, having
\* read nothing after the prefix.
LengthBound ==
  [][\A t \in Threads :
       LET e == EndOf(t)
           b == sz[t]
           within == Declared24(b) /\ DeclaredLen(b) <= 1048576
       IN
       /\ (pc[t] = "recv_chk" /\ pc'[t] # "recv_chk") =>
            IF within
            THEN /\ closed' = closed
                 /\ IF DeclaredLen(b) = 0
                    THEN /\ pc'[t] = "idle"
                         /\ ret'[t].err = "nil" /\ ret'[t].body = <<>>
                    ELSE pc'[t] = "recv_body"
            ELSE /\ pc'[t] = "idle"
                 /\ ret'[t].err = "ErrTooLong" /\ ret'[t].body = <<>>
                 /\ closed'[e]
                 /\ wire' = wire
       /\ (pc[t] = "recv_body" /\ pc'[t] = "idle" /\ ret'[t].err = "nil") =>
            BLen(ret'[t].body) = DeclaredLen(b)
     ]_vars

\* A raw peer's frame of declared length 1,048,576 has been received.
LengthBoundWitness ==
  \E t \in Threads :
    /\ kind[Peer(EndOf(t))] = "raw"
    /\ ret[t].op = "recv" /\ ret[t].err = "nil"
    /\ DeclaredLen(ret[t].sz) = 1048576
    /\ BLen(ret[t].body) = 1048576

IOErrors == {"ErrClosed", "EIO", "EPIPE", "EOF", "ErrUnexpectedEOF"}

\* C4: handshake acceptance.  With a conn on both ends, a NewConnPipe that
\* returns without an I/O error returns a pipe: it is open, its
\* LocalProtocol is the number the constructor was given and its
\* RemoteProtocol is the number the peer's constructor was given.
HandshakeAccepts ==
  \A e \in Ends :
    LET t == Main(e)
        u == Main(Peer(e))
    IN
    (kind[e] = "pipe" /\ kind[Peer(e)] = "pipe"
       /\ ret[t].op = "new" /\ ret[t].err \notin IOErrors) =>
      /\ ret[t].err = "nil"
      /\ pc[t] = "idle"
      /\ IsOpen(e)
      /\ LocalProtocol(e) = ret[t].arg
      /\ RemoteProtocol(e) = ret[u].arg

\* Both constructions have succeeded, on protocol numbers 258 and 65535.
HandshakeAcceptsWitness ==
  /\ kind["B"] = "pipe"
  /\ ret["a1"].op = "new" /\ ret["a1"].err = "nil" /\ ret["a1"].arg = 258
  /\ ret["b1"].op = "new" /\ ret["b1"].err = "nil" /\ ret["b1"].arg = 65535
  /\ rproto["A"] = 65535 /\ rproto["B"] = 258

\* C5: a bad header is rejected.  Once the eight bytes read from the peer
\* have a non-zero first byte, magic other than 'S','P' or a non-zero
\* trailer, the pipe is never open and no remote protocol is stored, and
\* NewConnPipe returns "bad header" and no pipe, the stream closed.
BadHeaderRejected ==
  \A t \in Threads :
    LET e == EndOf(t)
        hd == h[t]
    IN
    ((pc[t] = "hs_check" \/ ret[t].op = "new")
       /\ (hd.Zero # 0 \/ hd.S # 83 \/ hd.P # 80 \/ hd.Rsvd # 0)) =>
      /\ ~open[e]
      /\ rproto[e] = 0
      /\ pc[t] \in {"hs_check", "failed"}
      /\ pc[t] = "failed" => (ret[t].err = "ErrBadHeader" /\ closed[e])

\* The header with magic 'X','P' has been rejected.
BadHeaderRejectedWitness ==
  \E t \in Threads :
    /\ ret[t].op = "new" /\ ret[t].err = "ErrBadHeader"
    /\ h[t].S = 88 /\ h[t].P = 80 /\ h[t].Version = 0
    /\ closed[EndOf(t)]

\* C6: a bad version is rejected, after the header.  A NewConnPipe that
\* has read a header of non-zero version has closed the stream and returns
\* no pipe: with "bad version" when the reserved bytes and the magic are
\* right, with "bad header" when they are wrong too.
BadVersionRejected ==
  \A t \in Threads :
    LET e == EndOf(t)
        hd == h[t]
    IN
    (ret[t].op = "new" /\ hd.Version # 0) =>
      /\ pc[t] = "failed"
      /\ closed[e]
      /\ ret[t].err =
           IF hd.Zero # 0 \/ hd.S # 83 \/ hd.P # 80 \/ hd.Rsvd # 0
           THEN "ErrBadHeader" ELSE "ErrBadVersion"

\* A header of version 1, right otherwise, has been rejected.
BadVersionRejectedWitness ==
  \E t \in Threads :
    /\ ret[t].op = "new" /\ ret[t].err = "ErrBadVersion"
    /\ h[t].Version = 1 /\ h[t].S = 83
    /\ closed[EndOf(t)]

\* C7: a handshake that fails with an I/O error, on the write of the local
\* header or on the read of the peer's, has closed the stream and returns
\* that error and no pipe.
HandshakeIOErrorCloses ==
  \A t \in Threads :
    (ret[t].op = "new" /\ ret[t].err \in IOErrors) =>
      pc[t] = "failed" /\ closed[EndOf(t)]

HsRunning(t) == pc[t] \in {"hs_write", "hs_read", "hs_check"}

\* C8: the handshake does not deadlock.  With a conn on both ends and room
\* for eight unread bytes in each direction, once both handshakes are
\* running both NewConnPipe calls eventually return.
HandshakeTerminates ==
  (kind["B"] = "pipe" /\ HsRunning("a1") /\ HsRunning("b1"))
    ~> (pc["a1"] \in {"idle", "failed"} /\ pc["b1"] \in {"idle", "failed"})

\* Both handshakes have returned a pipe over a stream that buffers eight
\* bytes a direction and no more.
HandshakeTerminatesWitness ==
  /\ kind["B"] = "pipe" /\ cap = 8
  /\ pc["a1"] = "idle" /\ ret["a1"].op = "new"
  /\ pc["b1"] = "idle" /\ ret["b1"].op = "new"

SendPcs == {"send_lock", "send_len", "send_hdr", "send_body"}
RecvPcs == {"recv_lock", "recv_len", "recv_chk", "recv_body"}

\* C9: the two directions are independent.  No operation holds or waits
\* for both guards; a Send waiting for the write guard gets it as soon as
\* it is free, and a Send holding it writes as soon as the stream takes
\* bytes, whoever holds the read guard; and the same for Recv, the read
\* guard and the bytes to read, whoever holds the write guard.
IndependentDirections ==
  \A t \in Threads :
    LET e == EndOf(t) IN
    /\ ~(rlock[e] = t /\ (wlock[e] = t \/ pc[t] \in SendPcs))
    /\ ~(wlock[e] = t /\ (rlock[e] = t \/ pc[t] \in RecvPcs))
    /\ (pc[t] = "send_lock" /\ wlock[e] = None) => ENABLED SendLock(t)
    /\ (pc[t] \in {"send_len", "send_hdr", "send_body"}
          /\ (buf[t] = <<>> \/ BLen(wire[Peer(e)]) < cap))
         => ENABLED (SendLen(t) \/ SendHdr(t) \/ SendBody(t))
    /\ (pc[t] = "recv_lock" /\ rlock[e] = None) => ENABLED RecvLock(t)
    /\ (pc[t] \in {"recv_len", "recv_body"} /\ wire[e] # <<>>)
         => ENABLED (RecvLen(t) \/ RecvBody(t))

\* A Send holds the write guard of a pipe, part of its frame written, while
\* a Recv on the same pipe holds the read guard and waits for data.
IndependentDirectionsWitness ==
  \E t, u \in Threads :
    /\ t # u /\ EndOf(t) = EndOf(u)
    /\ rlock[EndOf(t)] = t /\ pc[t] = "recv_len" /\ wire[EndOf(t)] = <<>>
    /\ ~closed["A"] /\ ~closed["B"]
    /\ wlock[EndOf(u)] = u /\ pc[u] = "send_body"

\* C10: after Close.  Once a Close has returned IsOpen is false; a Send or
\* Recv called after that never returns without an error; and it returns.
AfterClose ==
  /\ [](\A e \in Ends : closeDone[e] => ~IsOpen(e))
  /\ [](\A t \in Threads :
          (late[t] /\ ret[t].op \in {"send", "recv"}) => ret[t].err # "nil")
  /\ \A t \in Threads :
       (late[t] /\ pc[t] \in SendPcs \cup RecvPcs) ~> (pc[t] = "idle")

\* A Send and a Recv called after Close returned have both failed.
AfterCloseWitness ==
  \E t, u \in Threads :
    /\ EndOf(t) = EndOf(u) /\ closeDone[EndOf(t)] /\ ~open[EndOf(t)]
    /\ late[t] /\ ret[t].op = "send" /\ ret[t].err # "nil"
    /\ late[u] /\ ret[u].op = "recv" /\ ret[u].err # "nil"

HsPcs == {"new", "hs_write", "hs_read", "hs_check"}
CloseCalled(e) ==
  closeDone[e] \/ \E t \in Threads : EndOf(t) = e /\ pc[t] = "close_conn"

\* C11: the life of the open flag.  It is false while NewConnPipe runs and
\* after it has failed; it goes from false to true in the step in which
\* the handshake succeeds, and in no other; and from the call of Close on
\* it is false in every state, whatever is called on the pipe.
OpenLifecycle ==
  /\ [](\A e \in Ends :
          /\ (kind[e] = "pipe" /\ pc[Main(e)] \in HsPcs \cup {"failed"})
               => ~IsOpen(e)
          /\ CloseCalled(e) => ~IsOpen(e))
  /\ [][\A e \in Ends :
          /\ (~open[e] /\ open'[e])
               <=> (pc[Main(e)] = "hs_check" /\ pc'[Main(e)] = "idle")
          /\ CloseCalled(e) => ~open'[e]
       ]_vars

\* On a pipe that NewConnPipe returned, a Send called after Close had
\* returned has returned too, and the flag is false.
OpenLifecycleWitness ==
  \E t \in Threads :
    /\ out[EndOf(t)] # <<>> /\ rproto[EndOf(t)] # 0
    /\ closeDone[EndOf(t)] /\ ~open[EndOf(t)]
    /\ late[t] /\ ret[t].op = "send"

\* C12: Recv returns a whole message or none.  A Recv that returns without
\* an error returns a body of the declared length, made of the bytes its
\* reads took off the stream after the prefix, in order; a Recv that
\* returns an error returns no message; and a Recv that has read the
\* prefix and finds the stream closed or ended before the last declared
\* byte returns an I/O error.
RecvWhole ==
  [][\A t \in Threads :
       LET e == EndOf(t)
           n == BLen(wire[e]) - BLen(wire'[e])
           read == BTake(wire[e], n)
           ended == closed[e] \/ (wire[e] = <<>> /\ closed[Peer(e)])
       IN
       /\ (pc[t] = "recv_body" /\ pc'[t] = "recv_body")
            => /\ buf'[t] = BCat(buf[t], read)
               /\ BLen(buf'[t]) < DeclaredLen(sz[t])
       /\ (pc[t] \in RecvPcs /\ pc'[t] = "idle") =>
            /\ ret'[t].op = "recv"
            /\ IF ret'[t].err = "nil"
               THEN /\ pc[t] \in {"recv_chk", "recv_body"}
                    /\ Declared24(sz[t])
                    /\ BLen(ret'[t].body) = DeclaredLen(sz[t])
                    /\ ret'[t].body =
                         IF pc[t] = "recv_body" THEN BCat(buf[t], read)
                         ELSE <<>>
                    /\ wire'[e] = BDrop(wire[e], n)
               ELSE ret'[t].body = <<>> /\ wire' = wire
       /\ (pc[t] = "recv_body" /\ ended /\ pc'[t] # pc[t]) =>
            ret'[t].err \in IOErrors /\ ret'[t].body = <<>>
    ]_vars

\* A Recv has read a prefix declaring a body that the peer, closing early,
\* never completed, and has returned the error of the short read.
RecvWholeWitness ==
  \E t \in Threads :
    /\ ret[t].op = "recv" /\ ret[t].err = "ErrUnexpectedEOF"
    /\ ret[t].sz # <<>> /\ ret[t].body = <<>>

\* The bytes a Recv in progress on end e has taken off the stream.
Partial(e) ==
  IF \E t \in Threads : EndOf(t) = e /\ pc[t] \in {"recv_len", "recv_chk", "recv_body"}
  THEN LET t == CHOOSE u \in Threads :
                  EndOf(u) = e /\ pc[u] \in {"recv_len", "recv_chk", "recv_body"}
       IN IF pc[t] = "recv_len" THEN buf[t]
          ELSE IF pc[t] = "recv_chk" THEN Pack(sz[t])
          ELSE BCat(Pack(sz[t]), buf[t])
  ELSE <<>>

\* C13: concurrent receives are serialized.  At most one Recv on a pipe is
\* between its first read and its return; only that Recv takes bytes off
\* the stream; while no stream end is closed, the bytes taken off so far
\* are the whole frames of the messages already returned, in the order
\* sent, and then the bytes the one Recv in progress holds; and a Recv
\* that returns a message returns Header ++ Body of one message the peer
\* sent, two Recvs never the same one.
RecvSerialized ==
  /\ [](\A e \in Ends :
          /\ Cardinality({t \in Threads :
                 EndOf(t) = e /\ pc[t] \in {"recv_len", "recv_chk", "recv_body"}})
               <= 1
          /\ (~closed[e] /\ ~closed[Peer(e)] /\ rcount[e] <= Len(sendLog[Peer(e)]))
               => out[Peer(e)]
                    = BCat(FramesOf(SubSeq(sendLog[Peer(e)], 1, rcount[e])),
                           BCat(Partial(e), wire[e]))
          /\ \A t, u \in Threads :
               (EndOf(t) = e /\ EndOf(u) = e
                  /\ ret[t].op = "recv" /\ ret[t].err = "nil"
                  /\ ret[u].op = "recv" /\ ret[u].err = "nil")
                 => /\ ret[t].seq \in 1..Len(sendLog[Peer(e)])
                    /\ ret[t].body = BCat(sendLog[Peer(e)][ret[t].seq].Header,
                                          sendLog[Peer(e)][ret[t].seq].Body)
                    /\ (t # u => ret[t].seq # ret[u].seq))
  /\ [][\A e \in Ends :
          BLen(wire'[e]) < BLen(wire[e])
            => \E t \in Threads :
                 /\ EndOf(t) = e /\ rlock[e] = t
                 /\ pc[t] \in {"recv_len", "recv_body"}
                 /\ \A u \in Threads \ {t} : buf'[u] = buf[u] /\ ret'[u] = ret[u]
       ]_vars

\* Two callers of Recv on one pipe have each returned a message, the two
\* messages of the peer's two Sends.
RecvSerializedWitness ==
  /\ ret["a1"].op = "recv" /\ ret["a1"].err = "nil"
  /\ ret["a2"].op = "recv" /\ ret["a2"].err = "nil"
  /\ Len(sendLog["B"]) = 2
  /\ ret["a1"].body # ret["a2"].body

\* C14, as claimed: errors are terminal.  A Send or Recv called after a
\* Send or Recv on the same pipe has returned an error, "message too long"
\* or any other, does not return without an error.
ErrorsTerminal ==
  \A t \in Threads :
    (after[t] # {} /\ ret[t].op \in {"send", "recv"}) => ret[t].err # "nil"

\* C14, amended: "message too long" is terminal.  A Recv that returns
\* "message too long" has closed the stream, and a Send or Recv called on
\* the pipe after it returns an error and no message.
TooLongTerminal ==
  \A t \in Threads :
    /\ (ret[t].op = "recv" /\ ret[t].err = "ErrTooLong") => closed[EndOf(t)]
    /\ ("ErrTooLong" \in after[t] /\ ret[t].op \in {"send", "recv"})
         => (ret[t].err # "nil" /\ ret[t].body = <<>>)
    /\ "ErrTooLong" \in after[t] => pc[t] \notin {"recv_chk", "recv_body"}

\* After a Recv has failed with "message too long", a Send and a Recv
\* called on the pipe have failed.
TooLongTerminalWitness ==
  \E t, u \in Threads :
    /\ EndOf(t) = EndOf(u)
    /\ "ErrTooLong" \in after[t] /\ ret[t].op = "send" /\ ret[t].err # "nil"
    /\ "ErrTooLong" \in after[u] /\ ret[u].op = "recv" /\ ret[u].err # "nil"

\* The error the stream returns to thread t for the read or the write it
\* is at.
StreamErr(t) ==
  IF pc[t] \in {"send_len", "send_hdr", "send_body"} THEN WriteErr(EndOf(t))
  ELSE IF pc[t] \in {"recv_len", "recv_body"}
       THEN ReadErr(EndOf(t), BLen(buf[t]))
  ELSE "nil"

\* C15: plain I/O errors in steady state.  When the read a Recv is at or
\* the write a Send is at fails, the step the operation takes is its
\* return, with the error of the stream and no message; nothing more is
\* read or written, so that a frame stays on the wire as far as it was
\* written; Close is not called on the stream; and the open flag and the
\* two protocol numbers stay as they were.
PlainIOErrors ==
  [][\A t \in Threads :
       (StreamErr(t) # "nil" /\ (pc'[t] # pc[t] \/ ret'[t] # ret[t])) =>
          /\ pc'[t] = "idle"
          /\ ret'[t].err = StreamErr(t) /\ ret'[t].body = <<>>
          /\ ret'[t].op = (IF pc[t] \in SendPcs THEN "send" ELSE "recv")
          /\ wire' = wire /\ out' = out
          /\ closed' = closed
          /\ open' = open /\ lproto' = lproto /\ rproto' = rproto
    ]_vars

\* A Send has failed on its body, the peer having closed: the prefix and
\* part of the body are on the wire, the sender's end of the stream is not
\* closed and its pipe is open.
PlainIOErrorsWitness ==
  \E t \in Threads :
    LET e == EndOf(t) IN
    /\ ret[t].op = "send" /\ ret[t].err = "EPIPE"
    /\ BLen(out[e]) > 8
    /\ out[e] # FramesOf(sendLog[e]) /\ IsPrefix(out[e], FramesOf(sendLog[e]))
    /\ ~closed[e] /\ open[e]

\* The holder of the write (read) guard of end e is in a Write (Read) that
\* the stream neither serves nor fails.
WBlocked(e) ==
  \E u \in Threads :
    /\ wlock[e] = u /\ buf[u] # <<>>
    /\ BLen(wire[Peer(e)]) >= cap /\ WriteErr(e) = "nil"
RBlocked(e) ==
  \E u \in Threads :
    /\ rlock[e] = u /\ pc[u] \in {"recv_len", "recv_body"}
    /\ wire[e] = <<>> /\ ReadErr(e, BLen(buf[u])) = "nil"

\* C16: the guards are released on every exit path.  A guard is held only
\* by a Send, or Recv, past its Lock and before its return; the step in
\* which a Send or Recv returns, with or without an error, leaves its
\* guard free; and a caller waiting for a guard is admitted, unless the
\* holder is in stream I/O that does not return.
GuardsReleased ==
  /\ [](\A e \in Ends :
          /\ wlock[e] # None
               => (EndOf(wlock[e]) = e
                   /\ pc[wlock[e]] \in {"send_len", "send_hdr", "send_body"})
          /\ rlock[e] # None
               => (EndOf(rlock[e]) = e
                   /\ pc[rlock[e]] \in {"recv_len", "recv_chk", "recv_body"}))
  /\ [][\A t \in Threads :
          /\ (pc[t] \in SendPcs /\ pc'[t] = "idle")
               => (wlock[EndOf(t)] = t /\ wlock'[EndOf(t)] = None)
          /\ (pc[t] \in RecvPcs /\ pc'[t] = "idle")
               => (rlock[EndOf(t)] = t /\ rlock'[EndOf(t)] = None)
       ]_vars
  /\ \A t \in Threads :
       /\ (pc[t] = "send_lock") ~> (pc[t] # "send_lock" \/ WBlocked(EndOf(t)))
       /\ (pc[t] = "recv_lock") ~> (pc[t] # "recv_lock" \/ RBlocked(EndOf(t)))

\* A Recv has returned "message too long" while another caller of Recv
\* waited for the read guard; the guard is free and the waiting caller
\* about to take it.
GuardsReleasedWitness ==
  \E t, u \in Threads :
    /\ t # u /\ EndOf(t) = EndOf(u)
    /\ pc[t] = "recv_lock" /\ rlock[EndOf(t)] = None
    /\ ret[u].op = "recv" /\ ret[u].err = "ErrTooLong"

\* C17: first in, first out.  The k-th Recv to return a message on a pipe
\* returns Header ++ Body of the k-th message whose Send took the peer's
\* write guard, for a single sender the k-th message it sent: none is
\* passed over, returned twice or returned out of turn.
FifoDelivery ==
  [][\A t \in Threads :
       LET e == EndOf(t)
           log == sendLog[Peer(e)]
           k == rcount[e] + 1
       IN
       (pc[t] \in RecvPcs /\ pc'[t] = "idle" /\ ret'[t].err = "nil") =>
         /\ k <= Len(log)
         /\ ret'[t].body = BCat(log[k].Header, log[k].Body)
         /\ ret'[t].seq = k
         /\ rcount'[e] = k
    ]_vars

\* One caller has sent two different messages, both Sends returning nil,
\* and the one caller of Recv on the peer has received the first and then,
\* in its second Recv, the second.
FifoDeliveryWitness ==
  /\ Len(sendLog["B"]) = 2 /\ sendLog["B"][1] # sendLog["B"][2]
  /\ ret["b1"].op = "send" /\ ret["b1"].err = "nil" /\ ret["b1"].seq = 2
  /\ ret["a1"].op = "recv" /\ ret["a1"].err = "nil" /\ ret["a1"].seq = 2
  /\ ret["a1"].body = BCat(sendLog["B"][2].Header, sendLog["B"][2].Body)
  /\ ret["a2"].op = "none" /\ pc["a2"] = "idle"

\* NewConnPipe has returned a pipe on end e.
Returned(e) == kind[e] = "pipe" /\ pc[Main(e)] \notin HsPcs \cup {"failed"}

\* The protocol number in the first eight bytes of a byte string.
ProtoIn(b) == Unpack(BTake(b, 8))[5] * 256 + Unpack(BTake(b, 8))[6]

\* C18: the protocol numbers are fixed.  Once NewConnPipe has returned a
\* pipe, LocalProtocol is the number the constructor was given, the one
\* in the header the pipe wrote, and RemoteProtocol is the number in the
\* header the handshake read, the one the peer wrote; and no step of a
\* Send, a Recv or a Close changes either.
ProtocolsFixed ==
  /\ [](\A e \in Ends :
          Returned(e) =>
            /\ LocalProtocol(e) = ProtoIn(out[e])
            /\ ret[Main(e)].op = "new" => LocalProtocol(e) = ret[Main(e)].arg
            /\ RemoteProtocol(e) = h[Main(e)].Proto
            /\ kind[Peer(e)] = "pipe" => RemoteProtocol(e) = ProtoIn(out[Peer(e)])
            /\ kind[Peer(e)] = "raw" => RemoteProtocol(e) = 258)
  /\ [][\A e \in Ends :
          Returned(e) => (lproto'[e] = lproto[e] /\ rproto'[e] = rproto[e])
       ]_vars

\* A pipe constructed on 258, its peer on 1, has been used by a Send and
\* closed, and reports 258 and 1.
ProtocolsFixedWitness ==
  /\ kind["B"] = "pipe" /\ Returned("A")
  /\ closeDone["A"]
  /\ \E t \in Threads : EndOf(t) = "A" /\ ret[t].op = "send"
  /\ LocalProtocol("A") = 258 /\ RemoteProtocol("A") = 1

\* C19: who writes the open flag.  The flag changes in two steps only: the
\* one in which the handshake succeeds, to true, and the call of Close, to
\* false.  The step in which Recv refuses an over-long frame closes the
\* stream and leaves the flag as it was, so that the flag of a pipe whose
\* stream the pipe has closed stays true until Close is called.
OpenFlagWriters ==
  [][\A e \in Ends :
       /\ open'[e] # open[e] =>
            \/ /\ open'[e]
               /\ pc[Main(e)] = "hs_check" /\ pc'[Main(e)] = "idle"
            \/ /\ ~open'[e]
               /\ \E t \in Threads :
                    EndOf(t) = e /\ pc[t] = "idle" /\ pc'[t] = "close_conn"
       /\ \A t \in Threads :
            (EndOf(t) = e /\ pc[t] = "recv_chk" /\ ret'[t].err = "ErrTooLong")
              => (closed'[e] /\ open'[e] = open[e])
    ]_vars

\* A Recv has refused an over-long frame and a Send called after it has
\* failed on the closed stream; Close has not been called, and IsOpen
\* still returns true.
OpenFlagWritersWitness ==
  \E t, u \in Threads :
    /\ EndOf(t) = EndOf(u)
    /\ ret[t].op = "recv" /\ ret[t].err = "ErrTooLong"
    /\ "ErrTooLong" \in after[u] /\ ret[u].op = "send" /\ ret[u].err # "nil"
    /\ closed[EndOf(t)] /\ ~CloseCalled(EndOf(t))
    /\ IsOpen(EndOf(t))

\* C20: the bound is enforced by Recv only.  A Send returns only from one
\* of its three writes, with what the stream returned for it, whatever
\* the length of the message: nil after the body, the whole frame written.
\* The Recv that has read the prefix of a message longer than 1,048,576
\* bytes returns "message too long" and no message and closes its end of
\* the stream, the bytes after the prefix left unread.
BoundOnRecvOnly ==
  [][\A t \in Threads :
       LET e == EndOf(t)
           log == sendLog[Peer(e)]
           k == rcount[e] + 1
       IN
       /\ (ret'[t] # ret[t] /\ ret'[t].op = "send") =>
            /\ pc[t] \in {"send_len", "send_hdr", "send_body"}
            /\ ret'[t].err = WriteErr(e)
            /\ ret'[t].err = "nil" =>
                 (pc[t] = "send_body" /\ out'[e] = FramesOf(sendLog[e]))
       /\ (pc[t] = "recv_chk" /\ pc'[t] # "recv_chk") =>
            /\ k <= Len(log)
            /\ BLen(log[k].Header) + BLen(log[k].Body) > 1048576 =>
                 /\ pc'[t] = "idle"
                 /\ ret'[t].err = "ErrTooLong" /\ ret'[t].body = <<>>
                 /\ closed'[e]
                 /\ wire' = wire /\ rcount' = rcount
    ]_vars

\* A Send of a message of 1,048,577 bytes has returned nil, the stream open
\* on its side; the peer's Recv has returned "message too long" and closed
\* its end, and the 1,048,577 bytes of the body are unread.
BoundOnRecvOnlyWitness ==
  \E t, u \in Threads :
    /\ EndOf(u) = Peer(EndOf(t))
    /\ ret[t].op = "send" /\ ret[t].err = "nil"
    /\ BLen(sendLog[EndOf(t)][ret[t].seq].Body) = 1048577
    /\ ~closed[EndOf(t)]
    /\ ret[u].op = "recv" /\ ret[u].err = "ErrTooLong"
    /\ closed[EndOf(u)]
    /\ BLen(wire[EndOf(u)]) = 1048577

====
